---- MODULE Spec2Model ----
(***************************************************************************)
(* A model of app.py: the /solve handler (fleet sizing, the OSRM table     *)
(* lookup with its synthetic fallback, the two possible solver             *)
(* invocations, route reconstruction, the per-segment geometry lookups     *)
(* and the response), one action per step between two external calls.     *)
(*                                                                         *)
(* Python lists are sequences; At(list, idx) reads the list at the         *)
(* zero-based index idx, so location index 0 is the depot as in the code.  *)
(* Coordinates are integers in thousandths of a degree.  Durations are     *)
(* whole seconds; a time in minutes (the replay clock) is a whole number   *)
(* of minutes and a number of sixtieths, so that seconds / 60.0 is exact.  *)
(***************************************************************************)
EXTENDS Integers, Sequences, FiniteSets, TLC

\* ---------------------------------------------------------------- bounds
\* Largest number of orders in a request (the depot is the first order).
MaxOrders == 3
\* Largest weight of a client order.
MaxWeight == 2
\* Largest vehicle_capacity of a request (0 is included).
MaxCapacity == 2
\* Largest num_vehicles of a request.
MaxRequested == 2
\* Largest number of coordinates in one segment returned by the route service.
MaxSegPoints == 3
\* Largest number of stops handed to get_route_geometry when it is run alone.
MaxStops == 4

\* ------------------------------------------------------ program constants
DefaultWeight == 1
ServiceMinutes == 15
MetersPerMilliDegree == 111
SpeedDecimetersPerSecond == 139
SecondsPerMinute == 60

\* ---------------------------------------------------------------- helpers
At(list, idx) == list[idx + 1]

Min(a, b) == IF a < b THEN a ELSE b

Last(s) == s[Len(s)]

RECURSIVE Sum(_)
Sum(s) == IF s = <<>> THEN 0 ELSE Head(s) + Sum(Tail(s))

RECURSIVE Flatten(_)
Flatten(ss) == IF ss = <<>> THEN <<>> ELSE Head(ss) \o Flatten(Tail(ss))

Range(s) == {s[k] : k \in DOMAIN s}

\* A Python value that is either None or a list.
PyNone == [py |-> "None"]
PyList(v) == [py |-> "list", v |-> v]

\* math.ceil(a / b) for a >= 0 and b > 0.
CeilDiv(a, b) == (a + b - 1) \div b

\* The integer part of a square root, by bisection.
RECURSIVE IsqrtBetween(_, _, _)
IsqrtBetween(x, lo, hi) ==
    IF lo >= hi THEN lo
    ELSE LET mid == (lo + hi + 1) \div 2
         IN IF mid * mid <= x THEN IsqrtBetween(x, mid, hi)
            ELSE IsqrtBetween(x, lo, mid - 1)

Isqrt(x) == IsqrtBetween(x, 0, Min(x, 46340))

\* ---------------------------------------------------------------- request
\* The k-th location of the requests drawn: [lon, lat] in thousandths of a degree.
Site(k) == <<k * k, 2 * k>>

\* The order lists drawn: a depot without a weight, then clients with weights.
OrderListsOf(n) ==
    { [k \in 1..n |-> IF k = 1 THEN [coordinates |-> Site(0)]
                      ELSE [coordinates |-> Site(k - 1), weight |-> w[k]]] :
        w \in [2..n -> 1..MaxWeight] }

Requests ==
    { [num_vehicles |-> r, vehicle_capacity |-> c, orders |-> os] :
        r \in 1..MaxRequested, c \in 0..MaxCapacity,
        os \in UNION {OrderListsOf(n) : n \in 0..MaxOrders} }

VARIABLES
    data,               \* the request body
    route_service,      \* how the OSRM route endpoint behaves during the request
    pc,                 \* the handler's position
    num_vehicles, optimal_vehicles,
    table_reply, table_calls, dist_matrix, dur_matrix,
    models, invocations, res,
    vehicle_id, cur, routes, total_distance, total_duration, used_vehicles,
    puntos, i, geometry, replies, route_calls,
    status, body

reqv == <<data, route_service>>
fleetv == <<num_vehicles, optimal_vehicles>>
matv == <<table_reply, table_calls, dist_matrix, dur_matrix>>
solv == <<models, invocations, res>>
loopv == <<vehicle_id, cur, routes, total_distance, total_duration, used_vehicles>>
geov == <<puntos, i, geometry, replies, route_calls>>
outv == <<status, body>>
vars == <<reqv, pc, fleetv, matv, solv, loopv, geov, outv>>

\* Lines 96-98: the lists read off the orders.
orders == data.orders
coords == [k \in 1..Len(orders) |-> orders[k].coordinates]
OrderWeight(order) ==
    IF "weight" \in DOMAIN order THEN order.weight ELSE DefaultWeight
weights == [k \in 1..Len(orders) |-> OrderWeight(orders[k])]
vehicle_capacity == data.vehicle_capacity

\* Line 102: sum(weights[1:]).
total_demand == Sum(SubSeq(weights, 2, Len(weights)))

\* ------------------------------------------------------------- responses
NoRoute == [route_indices |-> <<>>, geometry |-> <<>>]
NoResult == [feasible |-> FALSE, routes |-> <<>>]

InputError == [error |-> "Se necesitan al menos 2 puntos (deposito + clientes)"]

InfeasibleError ==
    [error |-> "No se encontro una solucion factible",
     details |-> "Intenta con menos clientes o mayor capacidad de vehiculos"]

UnexpectedError(e) ==
    [error |-> "Error al resolver el problema de ruteo", details |-> e]

Reply(code, payload) ==
    /\ status' = code
    /\ body' = payload
    /\ pc' = "done"

\* ------------------------------------------------------------ fleet sizing
FirstFleetUnclamped(requested, optimal) == requested

\* Lines 112-114: the requested count, replaced by optimal when it exceeds it.
FirstFleet(requested, optimal) ==
    IF requested > optimal THEN optimal ELSE requested

\* Lines 89-118: parse the request, size the fleet, validate the input.
Validate ==
    /\ pc = "start"
    /\ UNCHANGED <<reqv, matv, solv, loopv, geov>>
    /\ IF vehicle_capacity = 0
       THEN /\ Reply(500, UnexpectedError("ZeroDivisionError"))
            /\ UNCHANGED fleetv
       ELSE LET optimal == CeilDiv(total_demand, vehicle_capacity)
            IN /\ optimal_vehicles' = optimal
               /\ num_vehicles' = FirstFleet(data.num_vehicles, optimal)
               /\ IF Len(coords) < 2
                  THEN Reply(400, InputError)
                  ELSE /\ pc' = "matrices"
                       /\ UNCHANGED outv

\* --------------------------------------------------------- matrix provider
\* Line 47: sqrt((lat2 - lat1)**2 + (lon2 - lon1)**2) * 111000, in decimeters
\* (coordinates are thousandths of a degree; the root is taken last, so the
\* truncations below are those of the code).
FallbackDecimeters(a, b) ==
    LET lat1 == a[2]  lon1 == a[1]
        lat2 == b[2]  lon2 == b[1]
        squares == (lat2 - lat1) * (lat2 - lat1) + (lon2 - lon1) * (lon2 - lon1)
    IN Isqrt(squares * (10 * MetersPerMilliDegree) * (10 * MetersPerMilliDegree))

\* Line 48: int(dist), meters.
FallbackDistance(a, b) == FallbackDecimeters(a, b) \div 10

\* Line 49: int(dist / 13.9), seconds.
FallbackDuration(a, b) == FallbackDecimeters(a, b) \div SpeedDecimetersPerSecond

\* Lines 37-51: both matrices, zero on the diagonal.
FallbackMatrices(cs) ==
    [distances |-> PyList([a \in 1..Len(cs) |-> [b \in 1..Len(cs) |->
                        IF a = b THEN 0 ELSE FallbackDistance(cs[a], cs[b])]]),
     durations |-> PyList([a \in 1..Len(cs) |-> [b \in 1..Len(cs) |->
                        IF a = b THEN 0 ELSE FallbackDuration(cs[a], cs[b])]])]

\* The table the OSRM service answers with when it answers well: road
\* distances longer than the straight line and not symmetric, road speed
\* below the fallback's.
OsrmTable(cs) ==
    LET road(a, b) == IF a = b THEN 0
                      ELSE (FallbackDistance(cs[a], cs[b]) * 13) \div 10
                           + (IF a < b THEN 50 ELSE 0)
    IN [distances |-> PyList([a \in 1..Len(cs) |-> [b \in 1..Len(cs) |-> road(a, b)]]),
        durations |-> PyList([a \in 1..Len(cs) |-> [b \in 1..Len(cs) |->
                                (road(a, b) * 10) \div 83]])]

\* A table for one location too few (a wrongly shaped payload).
OsrmShortTable(cs) == OsrmTable(SubSeq(cs, 1, Len(cs) - 1))

\* What the table call can come back with: an exception raised by lines 26-33
\* (requests.get fails or times out, raise_for_status on a non-2xx status,
\* res.json() on a body that is not JSON, data[...] on a missing key), a good
\* table, a payload whose matrices are null, a payload whose matrices are
\* too small.
TableReplies == {"exception", "ok", "null", "short"}

\* Lines 19-51: get_matrices(coords) for a given outcome of the table call.
get_matrices(cs, reply) ==
    CASE reply = "exception" -> FallbackMatrices(cs)
      [] reply = "ok" -> OsrmTable(cs)
      [] reply = "null" -> [distances |-> PyNone, durations |-> PyNone]
      [] reply = "short" -> OsrmShortTable(cs)

\* Line 121.
GetMatrices ==
    /\ pc = "matrices"
    /\ \E reply \in TableReplies :
         LET got == get_matrices(coords, reply)
         IN /\ table_reply' = reply
            /\ dist_matrix' = got.distances
            /\ dur_matrix' = got.durations
    /\ table_calls' = table_calls + 1
    /\ pc' = "solve"
    /\ UNCHANGED <<reqv, fleetv, solv, loopv, geov, outv>>

\* ----------------------------------------------------------- solver adapter
\* Lines 157-163: what reading matrix[i][j] for every i # j raises, if anything.
EntryError(matrix, n) ==
    IF matrix.py = "None" THEN "TypeError"
    ELSE IF \E a \in 1..n : \E b \in 1..n :
              a # b /\ (a > Len(matrix.v) \/ b > Len(matrix.v[Min(a, Len(matrix.v))]))
         THEN "IndexError"
         ELSE ""

EdgeError ==
    IF EntryError(dist_matrix, Len(coords)) # ""
    THEN EntryError(dist_matrix, Len(coords))
    ELSE EntryError(dur_matrix, Len(coords))

\* Lines 124-163 (and 177-197): the model handed to the solver (the time
\* windows and the edge costs are the solver's to read; whether it finds a
\* feasible plan is left open in SolverResults).
BuildModel(fleet) ==
    [num_available |-> fleet,
     capacity |-> vehicle_capacity,
     clients |-> Len(coords) - 1,
     edges |-> Len(coords) * (Len(coords) - 1)]

\* -- the solver (pyvrp), an external collaborator: what solve() may return.
Clients == 1..(Len(coords) - 1)

\* Sequences of distinct clients, at least one.
ClientSeqs ==
    UNION { { s \in [1..k -> Clients] : \A p, q \in 1..k : p # q => s[p] # s[q] } :
            k \in 1..Cardinality(Clients) }

RouteLoad(visits) == Sum([k \in 1..Len(visits) |-> At(weights, visits[k])])

\* Every client visited exactly once, no route over capacity, at most fleet routes.
Plans(fleet) ==
    { rs \in UNION { [1..k -> ClientSeqs] : k \in 1..Min(fleet, Cardinality(Clients)) } :
        /\ Len(Flatten(rs)) = Cardinality(Clients)
        /\ Range(Flatten(rs)) = Clients
        /\ \A k \in DOMAIN rs : RouteLoad(rs[k]) <= vehicle_capacity }

\* Whether the solver lists the depot at the start and at the end of a route.
Conventions == {"bare", "start", "end", "both"}

Bookend(visits, convention) ==
    (IF convention \in {"start", "both"} THEN <<0>> ELSE <<>>)
    \o visits
    \o (IF convention \in {"end", "both"} THEN <<0>> ELSE <<>>)

\* The routes as returned: only the vehicles used, or one route per vehicle.
Returned(rs, fleet, per_vehicle, convention) ==
    LET listed == IF per_vehicle
                  THEN rs \o [k \in 1..(fleet - Len(rs)) |-> <<>>]
                  ELSE rs
    IN [k \in 1..Len(listed) |-> Bookend(listed[k], convention)]

SolverResults(fleet) ==
    {NoResult} \cup
    { [feasible |-> TRUE, routes |-> Returned(rs, fleet, per_vehicle, convention)] :
        rs \in Plans(fleet), per_vehicle \in BOOLEAN, convention \in Conventions }

ShouldEscalateAlways(fleet, optimal) == TRUE

\* Line 172.
ShouldEscalate(fleet, optimal) == fleet = optimal

\* Line 174.
EscalatedFleet(optimal) == optimal + 1

RejectsNothing(result) == FALSE

\* Lines 170 and 201: if not res.is_feasible().
Rejects(result) == ~result.feasible

Invoke(fleet, result) ==
    /\ models' = Append(models, BuildModel(fleet))
    /\ invocations' = Append(invocations,
           [fleet |-> fleet, model |-> Len(models) + 1, feasible |-> result.feasible])
    /\ res' = result

\* Lines 124-175: build the model, solve, and decide on the first result.
Solve ==
    /\ pc = "solve"
    /\ UNCHANGED <<reqv, matv, loopv, geov, optimal_vehicles>>
    /\ IF EdgeError # ""
       THEN /\ Reply(500, UnexpectedError(EdgeError))
            /\ UNCHANGED <<solv, num_vehicles>>
       ELSE \E result \in SolverResults(num_vehicles) :
              /\ Invoke(num_vehicles, result)
              /\ IF ~Rejects(result)
                 THEN /\ pc' = "routes"
                      /\ UNCHANGED <<outv, num_vehicles>>
                 ELSE IF ShouldEscalate(num_vehicles, optimal_vehicles)
                      THEN /\ num_vehicles' = EscalatedFleet(optimal_vehicles)
                           /\ pc' = "retry"
                           /\ UNCHANGED outv
                      ELSE /\ Reply(400, InfeasibleError)
                           /\ UNCHANGED num_vehicles

\* Lines 176-205: rebuild the model with one more vehicle, solve again.
Retry ==
    /\ pc = "retry"
    /\ UNCHANGED <<reqv, matv, loopv, geov, fleetv>>
    /\ \E result \in SolverResults(num_vehicles) :
         /\ Invoke(num_vehicles, result)
         /\ IF Rejects(result)
            THEN Reply(400, InfeasibleError)
            ELSE /\ pc' = "routes"
                 /\ UNCHANGED outv

\* ------------------------------------------------------ route reconstructor
\* Minutes as the code's floats hold them: whole minutes and sixtieths.
Minutes(whole, sixtieths) == [min |-> whole, sixtieths |-> sixtieths]

\* Line 258: travel_time_seconds / 60.0.
ToMinutes(seconds) ==
    Minutes(seconds \div SecondsPerMinute, seconds % SecondsPerMinute)

Plus(t, u) ==
    Minutes(t.min + u.min + (t.sixtieths + u.sixtieths) \div SecondsPerMinute,
            (t.sixtieths + u.sixtieths) % SecondsPerMinute)

AtMost(t, u) ==
    t.min < u.min \/ (t.min = u.min /\ t.sixtieths <= u.sixtieths)

\* Lines 219-229: the depot put at the start and at the end when it is not there.
Normalize(route) ==
    LET started == IF route[1] # 0 THEN <<0>> \o route ELSE route
    IN IF Last(started) # 0 THEN Append(started, 0) ELSE started

RouteWeightShifted(node_idx) == At(weights, node_idx - 1)

\* Line 245: weights[node_idx].
RouteWeight(node_idx) == At(weights, node_idx)

ArrivalAfterService(current_time) == Plus(current_time, Minutes(ServiceMinutes, 0))

\* Line 248: arrival_minutes = current_time.
ArrivalMinutes(current_time) == current_time

\* Lines 242-259: the replay of the clock along the route, from position idx on
\* (idx counts from 0, as in the code).
RECURSIVE Replay(_, _, _)
Replay(route_indices, idx, current_time) ==
    IF idx >= Len(route_indices) THEN <<>>
    ELSE LET node_idx == At(route_indices, idx)
             served == IF node_idx # 0
                       THEN Plus(current_time, Minutes(ServiceMinutes, 0))
                       ELSE current_time
             left == IF idx < Len(route_indices) - 1
                     THEN Plus(served, ToMinutes(
                              At(At(dur_matrix.v, node_idx), At(route_indices, idx + 1))))
                     ELSE served
         IN (IF node_idx # 0 THEN <<ArrivalMinutes(current_time)>> ELSE <<>>)
            \o Replay(route_indices, idx + 1, left)

\* Lines 262-266: a matrix summed over the consecutive pairs of the route.
AlongRoute(matrix, route_indices) ==
    Sum([k \in 1..(Len(route_indices) - 1) |->
            At(At(matrix.v, route_indices[k]), route_indices[k + 1])])

Stops(route_indices) == SelectSeq(route_indices, LAMBDA node_idx : node_idx # 0)

\* Lines 232-289: route_data, its geometry still to come.
RouteData(vid, route_indices) ==
    LET visited == Stops(route_indices)
        route_weights == [k \in 1..Len(visited) |-> RouteWeight(visited[k])]
    IN [vehicle_id |-> vid + 1,
        nodes |-> [k \in 1..Len(visited) |-> At(coords, visited[k])],
        weights |-> route_weights,
        arrival_times |-> Replay(route_indices, 0, Minutes(0, 0)),
        full_route |-> [k \in 1..Len(route_indices) |-> At(coords, route_indices[k])],
        geometry |-> <<>>,
        distance |-> AlongRoute(dist_matrix, route_indices),
        duration |-> AlongRoute(dur_matrix, route_indices),
        total_weight |-> Sum(route_weights),
        num_clients |-> Len(visited),
        route_indices |-> route_indices]

\* Lines 215-271: one turn of the loop over res.best.routes(), up to the
\* geometry call.
RouteBegin ==
    /\ pc = "routes"
    /\ vehicle_id < Len(res.routes)
    /\ UNCHANGED <<reqv, fleetv, matv, solv, routes, vehicle_id,
                   total_distance, total_duration, used_vehicles, replies, route_calls>>
    /\ LET route == At(res.routes, vehicle_id)
       IN IF route = <<>>
          THEN /\ Reply(500, UnexpectedError("IndexError"))
               /\ UNCHANGED <<cur, puntos, i, geometry>>
          ELSE LET route_data == RouteData(vehicle_id, Normalize(route))
               IN /\ cur' = route_data
                  /\ i' = 0
                  /\ geometry' = <<>>
                  /\ UNCHANGED outv
                  /\ IF Len(route_data.full_route) > 1
                     THEN /\ puntos' = route_data.full_route
                          /\ pc' = "geometry"
                     ELSE /\ puntos' = <<>>
                          /\ pc' = "route_end"

\* -------------------------------------------------------- geometry stitcher
\* The coordinates of the service's geometry, named by where they lie: the
\* point the n-th stop of the route snaps to, or the k-th point of the road
\* of segment n.
StopPoint(n) == [at |-> "stop", n |-> n, k |-> 0]
ViaPoint(n, k) == [at |-> "via", n |-> n, k |-> k]

\* A geometry of len points for segment n: from stop n to stop n + 1 (a
\* geometry of one point is the stop both ends snap to).
Segment(n, len) ==
    [k \in 1..len |-> IF k = 1 THEN StopPoint(n)
                      ELSE IF k = len THEN StopPoint(n + 1)
                      ELSE ViaPoint(n, k)]

\* What one route lookup can come back with (lines 69-81): an exception
\* (timeout, connection, body that is not JSON), a body without routes, or a
\* route with its geometry.
RouteReplies(service, n) ==
    CASE service = "down" -> {[kind |-> "exception", coordinates |-> <<>>]}
      [] service = "up" -> {[kind |-> "routes", coordinates |-> Segment(n, 2)]}
      [] service = "flaky" ->
            {[kind |-> "exception", coordinates |-> <<>>],
             [kind |-> "no_routes", coordinates |-> <<>>]}
            \cup {[kind |-> "routes", coordinates |-> Segment(n, len)] :
                    len \in 1..MaxSegPoints}

DropsNothing(n, segment) == FALSE

\* Line 74: i > 0 and len(segment) > 1.
DropsFirstPoint(n, segment) == n > 0 /\ Len(segment) > 1

\* Lines 61-81: the body of the loop, for the reply to the lookup of segment n.
StitchSegment(so_far, n, reply) ==
    IF reply.kind = "routes"
    THEN so_far \o (IF DropsFirstPoint(n, reply.coordinates)
                    THEN Tail(reply.coordinates)
                    ELSE reply.coordinates)
    ELSE so_far

\* Lines 60-81: one turn of the loop of get_route_geometry.
GeometrySegment ==
    /\ pc = "geometry"
    /\ i < Len(puntos) - 1
    /\ \E reply \in RouteReplies(route_service, i) :
         /\ geometry' = StitchSegment(geometry, i, reply)
         /\ replies' = Append(replies, reply)
    /\ route_calls' = route_calls + 1
    /\ i' = i + 1
    /\ UNCHANGED <<reqv, pc, fleetv, matv, solv, loopv, puntos, outv>>

\* Line 83 (and 271): return geometry.
GeometryReturn ==
    /\ pc = "geometry"
    /\ i >= Len(puntos) - 1
    /\ cur' = [cur EXCEPT !.geometry = geometry]
    /\ pc' = "route_end"
    /\ UNCHANGED <<reqv, fleetv, matv, solv, vehicle_id, routes, total_distance,
                   total_duration, used_vehicles, geov, outv>>

\* Lines 291-302: the route joins the response; a route with clients counts
\* as a used vehicle.
RouteEnd ==
    /\ pc = "route_end"
    /\ routes' = Append(routes, cur)
    /\ IF cur.num_clients > 0
       THEN /\ used_vehicles' = used_vehicles + 1
            /\ total_distance' = total_distance + cur.distance
            /\ total_duration' = total_duration + cur.duration
       ELSE UNCHANGED <<used_vehicles, total_distance, total_duration>>
    /\ vehicle_id' = vehicle_id + 1
    /\ cur' = NoRoute
    /\ puntos' = <<>> /\ i' = 0 /\ geometry' = <<>> /\ replies' = <<>>
    /\ pc' = "routes"
    /\ UNCHANGED <<reqv, fleetv, matv, solv, route_calls, outv>>

\* ------------------------------------------------------------ plan assembler
\* Lines 307-327.
Plan ==
    [num_routes |-> Len(routes),
     routes |-> routes,
     depot |-> At(coords, 0),
     vehicle_info |-> [available |-> num_vehicles,
                       used |-> used_vehicles,
                       capacity |-> vehicle_capacity],
     statistics |-> [total_distance |-> total_distance,
                     total_duration |-> total_duration,
                     total_weight |-> Sum(SubSeq(weights, 2, Len(weights))),
                     num_clients |-> Len(coords) - 1],
     solution_quality |-> [is_feasible |-> res.feasible]]
     \* (the solver's cost and iteration count are passed on as they come)

Respond ==
    /\ pc = "routes"
    /\ vehicle_id >= Len(res.routes)
    /\ Reply(200, Plan)
    /\ UNCHANGED <<reqv, fleetv, matv, solv, loopv, geov>>

\* A request on entry.  The route endpoint is up or down for the whole
\* request; SpecGeometry below takes every pattern of replies.
Init ==
    /\ data \in Requests
    /\ route_service \in {"up", "down"}
    /\ pc = "start"
    /\ num_vehicles = data.num_vehicles
    /\ optimal_vehicles = 0
    /\ table_reply = "" /\ table_calls = 0
    /\ dist_matrix = PyNone /\ dur_matrix = PyNone
    /\ models = <<>> /\ invocations = <<>> /\ res = NoResult
    /\ vehicle_id = 0 /\ cur = NoRoute /\ routes = <<>>
    /\ total_distance = 0 /\ total_duration = 0 /\ used_vehicles = 0
    /\ puntos = <<>> /\ i = 0 /\ geometry = <<>> /\ replies = <<>>
    /\ route_calls = 0
    /\ status = 0 /\ body = [error |-> ""]

Next ==
    \/ Validate
    \/ GetMatrices
    \/ Solve
    \/ Retry
    \/ RouteBegin
    \/ GeometrySegment
    \/ GeometryReturn
    \/ RouteEnd
    \/ Respond

Spec == Init /\ [][Next]_vars

\* get_route_geometry on its own: any list of stops, any reply to any lookup.
InitGeometry ==
    /\ data = [num_vehicles |-> 1, vehicle_capacity |-> 1, orders |-> <<>>]
    /\ route_service = "flaky"
    /\ pc = "geometry"
    /\ num_vehicles = 1
    /\ optimal_vehicles = 0
    /\ table_reply = "" /\ table_calls = 0
    /\ dist_matrix = PyNone /\ dur_matrix = PyNone
    /\ models = <<>> /\ invocations = <<>> /\ res = NoResult
    /\ vehicle_id = 0 /\ cur = NoRoute
    /\ routes = <<>>
    /\ total_distance = 0 /\ total_duration = 0 /\ used_vehicles = 0
    /\ puntos \in {[k \in 1..n |-> Site(k - 1)] : n \in 0..MaxStops}
    /\ i = 0 /\ geometry = <<>> /\ replies = <<>>
    /\ route_calls = 0
    /\ status = 0 /\ body = [error |-> ""]

NextGeometry == GeometrySegment \/ GeometryReturn

SpecGeometry == InitGeometry /\ [][NextGeometry]_vars
\* ------------------------------------------------------------------ claims
\* ceil(D / C) and the order weights, read off the request itself.
ClientWeights == [k \in 1..(Len(data.orders) - 1) |-> data.orders[k + 1].weight]
Demand == Sum(ClientWeights)
Optimal == CeilDiv(Demand, data.vehicle_capacity)
Invoked == Len(invocations) >= 1
Finished == pc = "done"

\* C1, as stated: the fleet size of the first solver invocation equals
\* min(R, ceil(D/C)) and is never less than ceil(D/C).
C1_FirstFleetIsMinAndNotBelowOptimal ==
    Invoked =>
        /\ invocations[1].fleet = Min(data.num_vehicles, Optimal)
        /\ invocations[1].fleet >= Optimal

\* C1, amended: the fleet size of the first solver invocation equals
\* min(R, ceil(D/C)); it is never more than ceil(D/C), and it is less than
\* ceil(D/C) exactly when R is.
C1_FirstFleetIsMin ==
    Invoked =>
        /\ invocations[1].fleet = Min(data.num_vehicles, Optimal)
        /\ models[1].num_available = invocations[1].fleet
        /\ invocations[1].fleet <= Optimal
        /\ (invocations[1].fleet < Optimal <=> data.num_vehicles < Optimal)

\* A first invocation whose fleet was cut down to ceil(D/C).
C1_Witness ==
    /\ Invoked
    /\ data.num_vehicles > Optimal
    /\ invocations[1].fleet = Optimal

\* C2: the solver is invoked at most twice; a second invocation follows only
\* an infeasible first result at a fleet of ceil(D/C), uses ceil(D/C) + 1
\* vehicles on a model built anew, and nothing follows it.
C2_AtMostTwoInvocations ==
    /\ Len(invocations) <= 2
    /\ Len(models) = Len(invocations)
    /\ Len(invocations) = 2 =>
          /\ ~invocations[1].feasible
          /\ invocations[1].fleet = Optimal
          /\ invocations[2].fleet = Optimal + 1
          /\ invocations[2].model # invocations[1].model
          /\ models[invocations[2].model].num_available = Optimal + 1
          /\ models[invocations[1].model].num_available = Optimal

\* A request that ended after a second infeasible result.
C2_Witness ==
    /\ Finished
    /\ Len(invocations) = 2
    /\ ~invocations[2].feasible

\* What C3 says of a request whose last result is infeasible, and of a 200.
C3_Outcomes ==
    /\ (Finished /\ Invoked /\ ~Last(invocations).feasible) =>
          /\ status = 400
          /\ body = InfeasibleError
          /\ routes = <<>>
          /\ route_calls = 0
    /\ status = 200 =>
          /\ Invoked
          /\ Last(invocations).feasible
          /\ body.solution_quality.is_feasible

\* C3, as stated: whenever the solver reports an infeasible result, solve()
\* retries once; still infeasible ends in the 400 with the hint and no route;
\* a 200 only ever comes from a feasible result.
C3_InfeasibleIsRetried ==
    /\ (Finished /\ Invoked /\ ~invocations[1].feasible) => Len(invocations) = 2
    /\ C3_Outcomes

\* C3, amended: an infeasible first result is retried once when the fleet
\* size equals ceil(D/C), and ends the request with the 400 at once when it
\* does not; the rest as stated.
C3_InfeasibleIsRetriedAtOptimal ==
    /\ (Finished /\ Invoked /\ ~invocations[1].feasible) =>
          IF invocations[1].fleet = Optimal
          THEN Len(invocations) = 2
          ELSE Len(invocations) = 1 /\ status = 400 /\ body = InfeasibleError
    /\ C3_Outcomes

\* A request recovered by the retry.
C3_Witness ==
    /\ status = 200
    /\ Len(invocations) = 2
    /\ ~invocations[1].feasible
    /\ invocations[2].feasible

\* C4: a request with fewer than 2 locations ends with the 400 of the input
\* check, whatever num_vehicles and vehicle_capacity are, and nothing
\* downstream is attempted.
C4_TooFewLocationsIs400 ==
    (Finished /\ Len(data.orders) < 2) =>
        /\ status = 400
        /\ body = InputError
        /\ table_calls = 0
        /\ invocations = <<>>
        /\ route_calls = 0

\* C5: every raw route of a feasible solution, empty ones included, is
\* reconstructed into a route_indices that starts and ends with the depot.
C5_RoutesStartAndEndAtDepot ==
    (Finished /\ Invoked /\ Last(invocations).feasible) =>
        /\ Len(routes) = Len(res.routes)
        /\ \A k \in DOMAIN routes :
              /\ routes[k].route_indices # <<>>
              /\ Head(routes[k].route_indices) = 0
              /\ Last(routes[k].route_indices) = 0

\* C6: in a 200, the number of routes equals the fleet size of the solver
\* invocation that produced the solution, unused vehicles included.
C6_OneRoutePerVehicle ==
    status = 200 =>
        /\ body.num_routes = body.vehicle_info.available
        /\ Len(body.routes) = Last(invocations).fleet
        /\ body.vehicle_info.used =
              Cardinality({k \in DOMAIN body.routes : body.routes[k].num_clients > 0})

\* C7: a table call that fails in any way, a malformed payload included, makes
\* solve() go on with the fallback matrices, without a second call, and the
\* request does not end in a 500 for it; a route lookup that fails adds
\* nothing to the geometry and the request goes on.
C7_ServiceFailuresAreAbsorbed ==
    /\ (table_reply \in {"exception", "null", "short"} /\ (Invoked \/ Finished)) =>
          /\ table_calls = 1
          /\ dist_matrix = FallbackMatrices(coords).distances
          /\ dur_matrix = FallbackMatrices(coords).durations
          /\ ~(status = 500 /\ invocations = <<>>)
    /\ \A n \in DOMAIN replies :
          replies[n].kind = "exception" =>
              /\ StopPoint(n) \notin Range(geometry)
              /\ status # 500


\* What C8 says of failed lookups and of the first point of a segment: every
\* segment is looked up whatever came before, every segment that came back
\* with a route is in the geometry up to its last point, and the number of
\* points kept of a segment depends only on where it is in the route and on
\* its own length.
Stitched == pc = "route_end"
Kept(n) ==
    IF replies[n].kind # "routes" THEN 0
    ELSE IF n > 1 /\ Len(replies[n].coordinates) > 1
         THEN Len(replies[n].coordinates) - 1
         ELSE Len(replies[n].coordinates)

C8_FailuresDoNotBlock ==
    /\ Stitched /\ puntos # <<>> => Len(replies) = Len(puntos) - 1
    /\ \A n \in DOMAIN replies :
          replies[n].kind = "routes" => Last(replies[n].coordinates) \in Range(geometry)
    /\ Len(geometry) = Sum([n \in DOMAIN replies |-> Kept(n)])

\* C8, as stated: no coordinate is repeated where two consecutive segments
\* meet, segments of a single point included; failed lookups block nothing.
C8_NoBoundaryRepeated ==
    /\ \A p \in 1..(Len(geometry) - 1) : geometry[p] # geometry[p + 1]
    /\ C8_FailuresDoNotBlock

\* C8, amended: no coordinate is repeated where two consecutive segments meet
\* when the later segment has more than one point (a segment of a single
\* point is appended whole and may repeat the boundary); failed lookups
\* block nothing.
C8_NoBoundaryRepeatedByLongSegments ==
    /\ \A p \in 1..(Len(geometry) - 1) :
          geometry[p] = geometry[p + 1] =>
              /\ geometry[p + 1].at = "stop"
              /\ geometry[p + 1].n + 1 <= Len(replies)
              /\ replies[geometry[p + 1].n + 1].kind = "routes"
              /\ Len(replies[geometry[p + 1].n + 1].coordinates) = 1
    /\ C8_FailuresDoNotBlock

\* A failed lookup followed by two segments that meet at a stop.
C8_Witness ==
    /\ Stitched
    /\ Len(replies) = 3
    /\ replies[1].kind = "exception"
    /\ replies[2].kind = "routes" /\ Len(replies[2].coordinates) = 3
    /\ replies[3].kind = "routes" /\ Len(replies[3].coordinates) = 2
    /\ Len(geometry) = 3

\* C9: in a 200, the loads of the used routes add up to the weights of the
\* orders without the depot.
C9_LoadsAddUp ==
    status = 200 =>
        LET used == SelectSeq(body.routes, LAMBDA r : r.num_clients > 0)
            loads == [k \in 1..Len(used) |-> used[k].total_weight]
        IN /\ Sum(loads) = body.statistics.total_weight
           /\ Sum(loads) = Demand

\* A 200 with two used routes.
C9_Witness ==
    /\ status = 200
    /\ body.vehicle_info.used = 2
    /\ Demand > 2

\* C10: the arrival times of every reconstructed route never decrease, and
\* the first one is the matrix duration from the depot to the first stop,
\* in minutes.
C10_ArrivalTimes ==
    \A k \in DOMAIN routes :
        LET times == routes[k].arrival_times
            visited == Stops(routes[k].route_indices)
        IN /\ Len(times) = Len(visited)
           /\ \A p \in 1..(Len(times) - 1) : AtMost(times[p], times[p + 1])
           /\ times # <<>> =>
                 times[1] = ToMinutes(At(At(dur_matrix.v, 0), visited[1]))

\* A reconstructed route of two stops reached after a travel that takes time.
C10_Witness ==
    \E k \in DOMAIN routes :
        /\ Len(routes[k].arrival_times) = 2
        /\ routes[k].arrival_times[1] # Minutes(0, 0)
        /\ routes[k].arrival_times[1] # routes[k].arrival_times[2]
====
